---- MODULE Spec2Model ----
(***************************************************************************)
(* Model of the province-table conversion tool (src/modified_code.py):     *)
(* the indicator extractor, the city/county row scan, the growth           *)
(* computation and the run_processing handler that chains them.            *)
(*                                                                         *)
(* Conventions.  A Python str is a sequence of one-character strings.  A   *)
(* spreadsheet cell / pandas scalar is a record [k, n, s]: k = "nan" (the  *)
(* empty cell, NaN), k = "num" (a number, n) or k = "str" (a text, s).     *)
(* Numbers are integers; a growth rate is an exact fraction num/den.       *)
(* The target city (Xinzhou) is written <<"X", "Z">>.                      *)
(***************************************************************************)
EXTENDS Integers, Sequences, FiniteSets, TLC

VARIABLES
    pe_pc,          \* harness position around one call of process_excel_file
    pe_file,        \* the spreadsheet handed to process_excel_file
    pe_skip,        \* rows_to_skip of that call
    pe_write_ok,    \* whether the output path can be written
    pe_ret,         \* what the call produced (return value, message, file, loop locals)
    pc,                  \* position of the run_processing handler
    runs,                \* runs started so far in this process
    last_year_file,      \* the spreadsheet at entry_last_year's path
    current_year_file,   \* the spreadsheet at entry_current_year's path
    entries,             \* the entries as the handler read them at the last click
    rows_to_skip_val,    \* int(entry_skip_rows.get())
    progress_window,     \* "none", "open" or "destroyed"
    progress_steps,      \* the values update_progress was called with in this run
    write_failures,      \* the outputs whose write raised in this run
    dialog,              \* what the user confirmed in the dialog of this run
    message,             \* title of the last error box shown since the last click
    df_last_year,        \* locals of run_processing
    df_this_year,
    indicators,
    counties,
    negative_indicators, \* the module-level list
    result_data,
    out_files            \* the three output files, None while not written

pe_vars == <<pe_pc, pe_file, pe_skip, pe_write_ok, pe_ret>>

run_vars ==
    <<pc, runs, last_year_file, current_year_file, entries, rows_to_skip_val, progress_window,
      progress_steps, write_failures, dialog, message, df_last_year, df_this_year, indicators, counties,
      negative_indicators, result_data, out_files>>

vars == <<pe_vars, run_vars>>

----------------------------------------------------------------------------
(* Python strings *)

Whitespace == {" ", "\n", "\t"}

RECURSIVE lstrip(_)
lstrip(s) == IF s # <<>> /\ Head(s) \in Whitespace THEN lstrip(Tail(s)) ELSE s

RECURSIVE rstrip(_)
rstrip(s) ==
    IF s # <<>> /\ s[Len(s)] \in Whitespace
    THEN rstrip(SubSeq(s, 1, Len(s) - 1))
    ELSE s

strip(s) == rstrip(lstrip(s))

IsNewline(c) == c = "\n"

replace_newline(s) == SelectSeq(s, LAMBDA c : ~IsNewline(c))

Digits == <<"0", "1", "2", "3", "4", "5", "6", "7", "8", "9">>

DigitChars == {Digits[i] : i \in 1..10}

DigitValue(c) == (CHOOSE i \in 1..10 : Digits[i] = c) - 1

RECURSIVE NatStr(_)
NatStr(n) == IF n < 10 THEN <<Digits[n + 1]>> ELSE Append(NatStr(n \div 10), Digits[(n % 10) + 1])

IntStr(n) == IF n < 0 THEN <<"-">> \o NatStr(0 - n) ELSE NatStr(n)

RECURSIVE ParseNat(_, _)
ParseNat(s, acc) == IF s = <<>> THEN acc ELSE ParseNat(Tail(s), acc * 10 + DigitValue(Head(s)))

IsNatText(s) == s # <<>> /\ \A i \in 1..Len(s) : s[i] \in DigitChars

----------------------------------------------------------------------------
(* Cells and pandas scalars *)

NaN == [k |-> "nan", n |-> 0, s |-> <<>>]

Num(x) == [k |-> "num", n |-> x, s |-> <<>>]

Str(t) == [k |-> "str", n |-> 0, s |-> t]

notna(c) == c.k # "nan"

isna(c) == c.k = "nan"

\* str(cell)
str(c) == IF c.k = "str" THEN c.s ELSE IF c.k = "num" THEN IntStr(c.n) ELSE <<"n", "a", "n">>

\* pd.to_numeric(value, errors='coerce') on one scalar
to_numeric(c) ==
    IF c.k = "num" THEN c
    ELSE IF c.k = "str" /\ IsNatText(c.s) THEN Num(ParseNat(c.s, 0))
    ELSE IF c.k = "str" /\ Len(c.s) > 1 /\ Head(c.s) = "-" /\ IsNatText(Tail(c.s))
         THEN Num(0 - ParseNat(Tail(c.s), 0))
    ELSE NaN

----------------------------------------------------------------------------
(* Spreadsheet files and the raw table pd.read_excel gives *)

\* A file is [ncols, rows]: every row is a sequence of ncols cells.
\* pd.read_excel(path, header=None, skiprows=k): the rows after the first k.
read_excel(file, skiprows) ==
    IF Len(file.rows) > skiprows
    THEN [ncols |-> file.ncols, rows |-> SubSeq(file.rows, skiprows + 1, Len(file.rows))]
    ELSE [ncols |-> 0, rows |-> <<>>]

shape0(df) == Len(df.rows)

shape1(df) == df.ncols

\* df.iloc[r, c], both 0-based
iloc(df, r, c) == df.rows[r + 1][c + 1]

\* a row of w cells: the cells f gives (by 0-based column), empty elsewhere
Row(w, f) == [c \in 1..w |-> IF (c - 1) \in DOMAIN f THEN f[c - 1] ELSE NaN]

----------------------------------------------------------------------------
(* extract_indicators_from_template *)

HEADER_ROW_IDX == 1

FIRST_INDICATOR_COL == 4

INDICATOR_STRIDE == 2

NoIndicators == [indicators |-> <<>>, value_columns |-> <<>>]

\* for i in range(4, df.shape[1], 2): keep the cells of the header row that are not NaN
RECURSIVE indicator_loop(_, _, _)
indicator_loop(df, header_row_idx, i) ==
    IF i >= shape1(df) THEN NoIndicators
    ELSE LET rest == indicator_loop(df, header_row_idx, i + INDICATOR_STRIDE)
             indicator == iloc(df, header_row_idx, i)
         IN  IF notna(indicator)
             THEN [indicators |-> <<replace_newline(str(indicator))>> \o rest.indicators,
                   value_columns |-> <<i>> \o rest.value_columns]
             ELSE rest

\* a variant that starts one column too far to the right
extract_indicators_from_col5(file, header_row_idx, skip_rows) ==
    LET df == read_excel(file, skip_rows)
    IN  IF header_row_idx >= shape0(df) THEN NoIndicators
        ELSE indicator_loop(df, header_row_idx, 5)

header_out_of_range(df, header_row_idx) == header_row_idx >= shape0(df)

extract_indicators_from_template(file, header_row_idx, skip_rows) ==
    LET df == read_excel(file, skip_rows)
    IN  IF header_out_of_range(df, header_row_idx) THEN NoIndicators
        ELSE indicator_loop(df, header_row_idx, FIRST_INDICATOR_COL)

----------------------------------------------------------------------------
(* process_excel_file *)

CITY_COL == 2

COUNTY_COL == 3

\* '忻州', the city_filter run_processing passes
CITY_FILTER == <<"X", "Z">>

\* "地市" and "县级市、区"
OUTPUT_CITY_COL_NAME == <<"c", "i", "t", "y">>

OUTPUT_COUNTY_COL_NAME == <<"c", "o", "u", "n", "t", "y">>

\* current_city is None until a city cell was seen
NoCity == [some |-> FALSE, s |-> <<>>]

SomeCity(s) == [some |-> TRUE, s |-> s]

\* the DataFrame a failed call returns in its place (None)
None == [none |-> TRUE, columns |-> <<>>, data |-> <<>>]

DataFrame(data, columns) == [none |-> FALSE, columns |-> columns, data |-> data]

\* city_name of a row: the trimmed city cell, "" when the cell is empty or blank
city_name_of(df, row_idx) ==
    LET city_value == IF shape1(df) > CITY_COL THEN iloc(df, row_idx, CITY_COL) ELSE NaN
    IN  IF notna(city_value) /\ strip(str(city_value)) # <<>>
        THEN strip(str(city_value))
        ELSE <<>>

\* county_name of a row: the trimmed county cell, "" when the cell is empty
county_name_of(df, row_idx) ==
    LET county_value == IF shape1(df) > COUNTY_COL THEN iloc(df, row_idx, COUNTY_COL) ELSE NaN
    IN  IF notna(county_value) THEN strip(str(county_value)) ELSE <<>>

\* a variant that fills what is not a number with zero
cell_value_zero_filled(df, row_idx, value_col) ==
    IF value_col < shape1(df) /\ to_numeric(iloc(df, row_idx, value_col)).k = "num"
    THEN to_numeric(iloc(df, row_idx, value_col))
    ELSE Num(0)

\* one value of a row: numeric or NaN
cell_value(df, row_idx, value_col) ==
    IF value_col < shape1(df) THEN to_numeric(iloc(df, row_idx, value_col)) ELSE NaN

\* row_data = [city_filter, county_name] + one value per value column
row_data_of(df, row_idx, city_filter, county_name, value_columns) ==
    <<Str(city_filter), Str(county_name)>> \o
    [j \in 1..Len(value_columns) |-> cell_value(df, row_idx, value_columns[j])]

\* a variant that collects the rows of the city whatever their county cell
row_collected_any_county(current_city, city_filter, county_name) ==
    current_city = SomeCity(city_filter)

\* whether the row is collected, given current_city after this row's update
row_collected(current_city, city_filter, county_name) ==
    current_city = SomeCity(city_filter) /\ county_name # <<>>

\* a variant that keeps the first city it saw
update_current_city_once(current_city, city_name) ==
    IF city_name # <<>> /\ ~current_city.some THEN SomeCity(city_name) ELSE current_city

\* current_city after the row's city cell was looked at
update_current_city(current_city, city_name) ==
    IF city_name # <<>> THEN SomeCity(city_name) ELSE current_city

\* for row_idx in range(df_input.shape[0]): the loop's locals after the last row
\* (trace: the value of current_city at each row, for the claims about the scan)
RECURSIVE scan_rows(_, _, _, _, _)
scan_rows(df, value_columns, city_filter, row_idx, st) ==
    IF row_idx >= shape0(df) THEN st
    ELSE LET current_city == update_current_city(st.current_city, city_name_of(df, row_idx))
             county_name == county_name_of(df, row_idx)
             collected == row_collected(current_city, city_filter, county_name)
         IN  scan_rows(df, value_columns, city_filter, row_idx + 1,
                 [current_city |-> current_city,
                  trace |-> Append(st.trace, current_city),
                  city_data |->
                      IF collected
                      THEN Append(st.city_data,
                               row_data_of(df, row_idx, city_filter, county_name, value_columns))
                      ELSE st.city_data])

ScanStart == [current_city |-> NoCity, trace |-> <<>>, city_data |-> <<>>]

\* a variant that goes on without indicators
no_indicators_unchecked(found) == FALSE

\* whether the call stops for want of indicators (if not indicators) or of rows
\* (if not city_data)
no_indicators(found) == found.indicators = <<>>

no_city_data(scan) == scan.city_data = <<>>

\* the function's locals when it returns, kept for the claims about the scan
Locals(found, scan) ==
    [indicators |-> found.indicators, value_columns |-> found.value_columns,
     trace |-> scan.trace, city_data |-> scan.city_data]

\* a variant that shows the same box for every failure
Failure_one_title(error, found, scan) ==
    [df |-> None, indicators |-> <<>>, error |-> "ProcessError", written |-> None,
     locals |-> [indicators |-> found.indicators, value_columns |-> found.value_columns,
                 trace |-> scan.trace, city_data |-> scan.city_data]]

\* return None, [] after a message box; error is the box's title:
\* "IndicatorError" (no indicators), "DataError" (no rows of the city),
\* "ProcessError" (an exception)
Failure(error, found, scan) ==
    [df |-> None, indicators |-> <<>>, error |-> error, written |-> None,
     locals |-> Locals(found, scan)]

\* the two title rows above the table: "基础数据" and "单位："
TITLE_TEXT == <<"b", "a", "s", "e">>

UNIT_TEXT == <<"u", "n", "i", "t", ":">>

\* a value as the sheet keeps it: NaN is written as nothing, and an empty text
\* leaves the cell empty as well
excel_cell(v) == IF v = Str(<<>>) THEN NaN ELSE v

\* the sheet the ExcelWriter block saves: the title rows in rows 0 and 1, then
\* df_output.to_excel(writer, startrow=2, index=False): the column names and
\* the rows
to_excel(df) ==
    LET num_cols == Len(df.columns)
    IN  [ncols |-> num_cols,
         rows |-> <<Row(num_cols, 0 :> Str(TITLE_TEXT)),
                    Row(num_cols, 0 :> Str(UNIT_TEXT)),
                    [c \in 1..num_cols |-> excel_cell(Str(df.columns[c]))]>> \o
                  [r \in 1..Len(df.data) |->
                      [c \in 1..num_cols |-> excel_cell(df.data[r][c])]]]

process_excel_file(file, city_filter, rows_to_skip, write_ok) ==
    LET df_input == read_excel(file, rows_to_skip)
        found == extract_indicators_from_template(file, HEADER_ROW_IDX, rows_to_skip)
        scan == scan_rows(df_input, found.value_columns, city_filter, 0, ScanStart)
        columns == <<OUTPUT_CITY_COL_NAME, OUTPUT_COUNTY_COL_NAME>> \o found.indicators
        df_output == DataFrame(scan.city_data, columns)
    IN  IF no_indicators(found) THEN Failure("IndicatorError", found, ScanStart)
        ELSE IF no_city_data(scan) THEN Failure("DataError", found, scan)
        ELSE IF ~write_ok THEN Failure("ProcessError", found, scan)
        ELSE [df |-> df_output, indicators |-> found.indicators, error |-> "none",
              written |-> to_excel(df_output), locals |-> Locals(found, scan)]

----------------------------------------------------------------------------
(* DataFrame access *)

\* the positions (1-based) of the columns called name
columns_named(df, name) == {i \in 1..Len(df.columns) : df.columns[i] = name}

\* df[df[OUTPUT_COUNTY_COL_NAME] == county]: the rows of that county, in order
rows_of_county(df, county) == SelectSeq(df.data, LAMBDA row : row[2] = Str(county))

\* df[name] gives one column only when exactly one column has that name: a
\* missing name raises KeyError, a repeated name gives a table, on which
\* pd.to_numeric and the truth test of pd.notna raise
column_usable(df, name) == Cardinality(columns_named(df, name)) = 1

column_of(df, name) == CHOOSE i \in columns_named(df, name) : TRUE

----------------------------------------------------------------------------
(* extract_indicators_and_counties *)

\* a variant that takes the counties of this year's table
extract_indicators_and_counties_of_current(df_last, df_this) ==
    [indicators |-> SelectSeq(df_last.columns,
                        LAMBDA col : col \notin {OUTPUT_CITY_COL_NAME, OUTPUT_COUNTY_COL_NAME}),
     counties |-> [r \in 1..Len(df_this.data) |-> df_this.data[r][2].s]]

\* indicators: the columns of last year's table but the two name columns;
\* counties: the county column of last year's table, row by row
extract_indicators_and_counties(df_last, df_this) ==
    [indicators |-> SelectSeq(df_last.columns,
                        LAMBDA col : col \notin {OUTPUT_CITY_COL_NAME, OUTPUT_COUNTY_COL_NAME}),
     counties |-> [r \in 1..Len(df_last.data) |-> df_last.data[r][2].s]]

----------------------------------------------------------------------------
(* calculate_growth_rates *)

RECURSIVE GCD(_, _)
GCD(a, b) == IF b = 0 THEN a ELSE GCD(b, a % b)

Abs(x) == IF x < 0 THEN 0 - x ELSE x

\* floats that growth rates take: NaN, +infinity, or the fraction n/d in
\* lowest terms with d > 0; negative_zero tells -0.0 from 0.0
RateNaN == [k |-> "nan", n |-> 0, d |-> 1, negative_zero |-> FALSE]

RateInf == [k |-> "inf", n |-> 0, d |-> 1, negative_zero |-> FALSE]

\* the float n / d: a zero divided by a negative number is -0.0
Fraction(n, d) ==
    LET g == GCD(Abs(n), Abs(d))
        sgn == IF d < 0 THEN 0 - 1 ELSE 1
    IN  [k |-> "num", n |-> sgn * (n \div g), d |-> sgn * (d \div g),
         negative_zero |-> (n = 0 /\ d < 0)]

\* value if pd.notna(value) else 0
value_or_zero(v) == IF notna(v) THEN v ELSE Num(0)

\* this - last on floats: NaN if either is NaN
float_sub(a, b) == IF isna(a) \/ isna(b) THEN NaN ELSE Num(a.n - b.n)

\* a variant that leaves the ratio as it is
float_percent_ratio(x, y) == IF isna(x) \/ isna(y) THEN RateNaN ELSE Fraction(x.n, y.n)

\* x / y * 100 on floats, y not zero
float_percent(x, y) == IF isna(x) \/ isna(y) THEN RateNaN ELSE Fraction(x.n * 100, y.n)

\* a variant that divides by this year's value
growth_rate_of_current(last_year_value, this_year_value) ==
    IF notna(this_year_value) /\ this_year_value.n # 0
    THEN float_percent(float_sub(this_year_value, last_year_value), this_year_value)
    ELSE RateNaN

\* a variant that counts an absent value of this year as zero
growth_rate_absent_as_zero(last_year_value, this_year_value) ==
    IF notna(last_year_value) /\ last_year_value.n # 0
    THEN float_percent(float_sub(value_or_zero(this_year_value), last_year_value),
                       last_year_value)
    ELSE IF notna(this_year_value) /\ this_year_value.n # 0 THEN RateInf
    ELSE RateNaN

\* the if / elif / else that gives growth_rate
growth_rate(last_year_value, this_year_value) ==
    IF notna(last_year_value) /\ last_year_value.n # 0
    THEN float_percent(float_sub(this_year_value, last_year_value), last_year_value)
    ELSE IF /\ notna(this_year_value) /\ this_year_value.n # 0
            /\ (isna(last_year_value) \/ last_year_value.n = 0)
    THEN RateInf
    ELSE RateNaN

\* the counties for which both years have a row
matched_counties(df_last, df_this, county_list) ==
    {county_list[i] : i \in {j \in 1..Len(county_list) :
        rows_of_county(df_last, county_list[j]) # <<>> /\ rows_of_county(df_this, county_list[j]) # <<>>}}

\* a variant that takes the last row of the county
first_value_of_last_row(df, county, indicator) ==
    to_numeric(rows_of_county(df, county)[Len(rows_of_county(df, county))][column_of(df, indicator)])

\* row[indicator].values[0] of the first row of the county, made numeric
first_value(df, county, indicator) ==
    to_numeric(rows_of_county(df, county)[1][column_of(df, indicator)])

\* indicator_data of one indicator
indicator_data_of(df_last, df_this, indicator, county_list) ==
    LET matched == matched_counties(df_last, df_this, county_list)
    IN  [name |-> indicator,
         current_values |->
             [c \in matched |-> value_or_zero(first_value(df_this, c, indicator))],
         previous_values |->
             [c \in matched |-> value_or_zero(first_value(df_last, c, indicator))],
         growth_rates |->
             [c \in matched |-> growth_rate(first_value(df_last, c, indicator),
                                            first_value(df_this, c, indicator))]]

\* whether the loops raise: some county is matched and some indicator names no
\* single column of one of the tables
growth_raises(df_last, df_this, indicator_list, county_list) ==
    /\ matched_counties(df_last, df_this, county_list) # {}
    /\ \E i \in 1..Len(indicator_list) :
           ~column_usable(df_last, indicator_list[i]) \/ ~column_usable(df_this, indicator_list[i])

\* the keys of a dict filled in this order: each name once, at its first place
RECURSIVE dict_keys(_)
dict_keys(names) ==
    IF names = <<>> THEN <<>>
    ELSE LET init == dict_keys(SubSeq(names, 1, Len(names) - 1))
             last == names[Len(names)]
         IN  IF \E i \in 1..Len(init) : init[i] = last THEN init ELSE Append(init, last)

\* result_data as the sequence of its values in key order; raised when the
\* function ends in an exception
calculate_growth_rates(df_last, df_this, indicator_list, county_list) ==
    IF growth_raises(df_last, df_this, indicator_list, county_list)
    THEN [raised |-> TRUE, data |-> <<>>]
    ELSE [raised |-> FALSE,
          data |-> [i \in 1..Len(dict_keys(indicator_list)) |->
                       indicator_data_of(df_last, df_this, dict_keys(indicator_list)[i], county_list)]]

----------------------------------------------------------------------------
(* generate_output_table *)

\* "N/A", "无限增长", "同期", "同比增幅%", "指标名称" and the bracket "（"
NA_TEXT == <<"N", "/", "A">>

INFINITE_TEXT == <<"i", "n", "f", "i", "n", "i", "t", "e">>

PREVIOUS_LABEL == <<"p", "r", "e", "v", "i", "o", "u", "s">>

GROWTH_LABEL == <<"g", "r", "o", "w", "t", "h", "%">>

NAME_COLUMN == <<"n", "a", "m", "e">>

IsBracket(c) == c = "("

\* digits of a natural number with a comma before every group of three
RECURSIVE grouped(_)
grouped(n) ==
    IF n < 1000 THEN NatStr(n)
    ELSE grouped(n \div 1000) \o <<",">> \o
         <<Digits[((n \div 100) % 10) + 1], Digits[((n \div 10) % 10) + 1], Digits[(n % 10) + 1]>>

\* n/d (d > 0) in hundredths, rounded to the nearest, a tie to the even one
round_hundredths(n, d) ==
    LET q == (n * 100) \div d
        r == (n * 100) % d
    IN  IF 2 * r > d \/ (2 * r = d /\ q % 2 = 1) THEN q + 1 ELSE q

\* f"{x:,.2f}" of the fraction n/d
format_2f(n, d) ==
    LET h == round_hundredths(Abs(n), d)
    IN  (IF n < 0 THEN <<"-">> ELSE <<>>) \o grouped(h \div 100) \o <<".">> \o
        <<Digits[((h \div 10) % 10) + 1], Digits[(h % 10) + 1]>>

\* a cell of the current-value or the prior-value row; missing is dict.get's None
format_value(values, county) ==
    IF county \in DOMAIN values /\ notna(values[county])
    THEN format_2f(values[county].n, 1)
    ELSE NA_TEXT

\* f"{growth_rate:,.2f}" of a finite rate: -0.0 keeps its sign
format_rate(rate) ==
    (IF rate.negative_zero THEN <<"-">> ELSE <<>>) \o format_2f(rate.n, rate.d)

\* a cell of the growth row
format_growth(growth_rates, county) ==
    IF county \in DOMAIN growth_rates /\ growth_rates[county].k # "nan"
    THEN IF growth_rates[county].k = "inf" THEN INFINITE_TEXT
         ELSE format_rate(growth_rates[county]) \o <<"%">>
    ELSE NA_TEXT

\* indicator_name.split('（')[0]
RECURSIVE before_bracket(_)
before_bracket(name) ==
    IF name = <<>> \/ IsBracket(Head(name)) THEN <<>>
    ELSE <<Head(name)>> \o before_bracket(Tail(name))

\* a variant that puts the prior values first
rows_of_indicator_prior_first(indicator_data, county_list) ==
    <<<<before_bracket(indicator_data.name)>> \o
          [i \in 1..Len(county_list) |-> format_value(indicator_data.previous_values, county_list[i])],
      <<PREVIOUS_LABEL>> \o
          [i \in 1..Len(county_list) |-> format_value(indicator_data.current_values, county_list[i])],
      <<GROWTH_LABEL>> \o
          [i \in 1..Len(county_list) |-> format_growth(indicator_data.growth_rates, county_list[i])]>>

\* the three rows of one indicator
rows_of_indicator(indicator_data, county_list) ==
    <<<<before_bracket(indicator_data.name)>> \o
          [i \in 1..Len(county_list) |-> format_value(indicator_data.current_values, county_list[i])],
      <<PREVIOUS_LABEL>> \o
          [i \in 1..Len(county_list) |-> format_value(indicator_data.previous_values, county_list[i])],
      <<GROWTH_LABEL>> \o
          [i \in 1..Len(county_list) |-> format_growth(indicator_data.growth_rates, county_list[i])]>>

RECURSIVE all_rows(_, _)
all_rows(results, county_list) ==
    IF results = <<>> THEN <<>>
    ELSE rows_of_indicator(Head(results), county_list) \o all_rows(Tail(results), county_list)

generate_output_table(results, county_list) ==
    [columns |-> <<NAME_COLUMN>> \o county_list, rows |-> all_rows(results, county_list)]

----------------------------------------------------------------------------
(* format_excel_with_style *)

NoTable == [none |-> TRUE, columns |-> <<>>, rows |-> <<>>, fills |-> <<>>]

\* the sheet rows (1 = the header row) that get the yellow fill
yellow_fill(row) == row % 3 = 1 \/ row % 3 = 0

format_excel_with_style(table) ==
    [table EXCEPT !.fills = [row \in 1..(1 + Len(table.rows)) |-> yellow_fill(row)]]

----------------------------------------------------------------------------
(* select_negative_indicators *)

\* a variant whose list keeps an entry per check box
confirmed_selection_per_box(names, checked) == SelectSeq(names, LAMBDA name : name \in checked)

\* on_confirm: the checked names in the order of indicator_vars, a dict keyed
\* by indicator name
confirmed_selection(names, checked) == SelectSeq(dict_keys(names), LAMBDA name : name \in checked)

\* a variant without the reset on entry
select_negative_indicators_unreset(names, checked, confirmed) ==
    IF confirmed THEN negative_indicators \o confirmed_selection(names, checked)
    ELSE negative_indicators

\* the module-level list after the dialog closed: reset on entry, filled only
\* by the confirm button
select_negative_indicators(names, checked, confirmed) ==
    IF confirmed THEN confirmed_selection(names, checked) ELSE <<>>

----------------------------------------------------------------------------
(* run_processing: the sign inversion of the selected indicators *)

\* x * -1 if pd.notna(x) else x
negated(v) == IF notna(v) THEN Num(0 - v.n) ELSE v

\* df[indicator] = pd.to_numeric(df[indicator]).apply(...)
invert_column(df, indicator) ==
    LET i == column_of(df, indicator)
    IN  [df EXCEPT !.data = [r \in 1..Len(df.data) |->
                                 [df.data[r] EXCEPT ![i] = negated(to_numeric(df.data[r][i]))]]]

\* if indicator in df.columns: a repeated name raises in pd.to_numeric
invert_raises(df, indicator) == Cardinality(columns_named(df, indicator)) > 1

invert_if_present(df, indicator) ==
    IF columns_named(df, indicator) = {} THEN df ELSE invert_column(df, indicator)

\* for indicator in negative_indicators: this year's table, then last year's
RECURSIVE apply_negative_indicators(_, _, _)
apply_negative_indicators(negatives, df_this, df_last) ==
    IF negatives = <<>> THEN [raised |-> FALSE, df_this |-> df_this, df_last |-> df_last]
    ELSE IF invert_raises(df_this, Head(negatives))
    THEN [raised |-> TRUE, df_this |-> df_this, df_last |-> df_last]
    ELSE IF invert_raises(df_last, Head(negatives))
    THEN [raised |-> TRUE, df_this |-> invert_if_present(df_this, Head(negatives)),
          df_last |-> df_last]
    ELSE apply_negative_indicators(Tail(negatives),
             invert_if_present(df_this, Head(negatives)),
             invert_if_present(df_last, Head(negatives)))

----------------------------------------------------------------------------
(* The spreadsheets the model reads *)

MaxCols == 9

MaxSkip == 1

MaxCityRows == 5

MaxPairRows == 3

MaxValueRows == 1

OTHER_CITY == <<"Y">>

SeqsUpTo(S, n) == UNION {[1..k -> S] : k \in 0..n}

IndicatorCols == {c \in FIRST_INDICATOR_COL..(MaxCols - 1) : (c - FIRST_INDICATOR_COL) % INDICATOR_STRIDE = 0}

HeaderCells == {NaN, Str(<<"p">>), Str(<<"q", "\n", "r">>), Str(<<" ">>), Str(<<"\n">>)}

CityCells == {NaN, Str(<<" ">>), Str(CITY_FILTER), Str(OTHER_CITY)}

PaddedCityCells == {NaN, Str(<<" ">> \o CITY_FILTER \o <<"\n">>), Str(OTHER_CITY)}

CountyCells == {NaN, Str(<<" ">>), Str(<<" ", "b", " ">>)}

ValueCells == {NaN, Num(0), Num(5), Str(<<"x">>), Str(<<"1", "2">>), Str(<<"-", "3">>)}

TitleRow(w) == Row(w, 0 :> Str(<<"t">>))

DataRow(w, city, county, v) == Row(w, (CITY_COL :> city) @@ (COUNTY_COL :> county) @@ v)

\* title row, header row with varying indicator cells, one row of the city;
\* cut to nrows rows of w columns
HeaderFiles ==
    {[ncols |-> w,
      rows |-> SubSeq(<<TitleRow(w),
                        DataRow(w, Str(<<"c">>), Str(<<"d">>), h),
                        DataRow(w, Str(CITY_FILTER), Str(<<"a">>), [c \in IndicatorCols |-> Num(c)])>>,
                      1, n)] :
        w \in 0..MaxCols, n \in 0..3, h \in [IndicatorCols -> HeaderCells]}

\* rows that differ in the city cell only
CityFiles ==
    {[ncols |-> 5,
      rows |-> [r \in 1..Len(cs) |-> DataRow(5, cs[r], Str(<<"a">>), 4 :> Num(r))]] :
        cs \in SeqsUpTo(CityCells, MaxCityRows)}

\* rows that differ in the city cell and the county cell
PairFiles ==
    {[ncols |-> 5,
      rows |-> [r \in 1..Len(ps) |-> DataRow(5, ps[r][1], ps[r][2], 4 :> Num(r))]] :
        ps \in SeqsUpTo(PaddedCityCells \X CountyCells, MaxPairRows)}

\* title row, header row p, q and rows of the city that differ in the value cells
ValueFiles ==
    {[ncols |-> w,
      rows |-> <<TitleRow(w),
                 DataRow(w, NaN, NaN, (4 :> Str(<<"p">>)) @@ (6 :> Str(<<"q">>)))>> \o
               [r \in 1..Len(vs) |->
                   DataRow(w, Str(CITY_FILTER), Str(<<"a">>), (4 :> vs[r][1]) @@ (6 :> vs[r][2]))]] :
        w \in {5, 7}, vs \in SeqsUpTo(ValueCells \X ValueCells, MaxValueRows)}

EmptyFile == [ncols |-> 0, rows |-> <<>>]

\* a file with indicators but no row of the city, and a file with one row of the city
OtherCityFile ==
    [ncols |-> 5,
     rows |-> <<TitleRow(5),
                DataRow(5, NaN, NaN, 4 :> Str(<<"p">>)),
                DataRow(5, Str(OTHER_CITY), Str(<<"a">>), 4 :> Num(5))>>]

GoodFile ==
    [ncols |-> 5,
     rows |-> <<TitleRow(5),
                DataRow(5, NaN, NaN, 4 :> Str(<<"p">>)),
                DataRow(5, Str(CITY_FILTER), Str(<<"a">>), 4 :> Num(8))>>]

SmallFiles == {EmptyFile, OtherCityFile, GoodFile}

----------------------------------------------------------------------------
(* run_processing, the handler of the start button *)

MaxRuns == 2

MaxPipelineRows == 2

PipelineHeaders ==
    {4 :> Str(<<"p">>),
     (4 :> Str(<<"p">>)) @@ (6 :> Str(<<"q">>)),
     4 :> Str(<<"q">>),
     (4 :> Str(<<"p">>)) @@ (6 :> Str(<<"p">>))}

\* county and first value of a row
PipelineRows == {<<<<"a">>, NaN>>, <<<<"a">>, Num(20)>>, <<<<"b">>, Num(8)>>}

\* title row, header row, rows of the city with a county and two values
PipelineFiles ==
    {[ncols |-> 7,
      rows |-> <<TitleRow(7), DataRow(7, NaN, NaN, h)>> \o
               [r \in 1..Len(vs) |->
                   DataRow(7, Str(CITY_FILTER), Str(vs[r][1]), (4 :> vs[r][2]) @@ (6 :> Num(3)))]] :
        h \in PipelineHeaders,
        vs \in SeqsUpTo(PipelineRows, MaxPipelineRows)}

TwoIndicatorFile ==
    [ncols |-> 7,
     rows |-> <<TitleRow(7),
                DataRow(7, NaN, NaN, (4 :> Str(<<"p">>)) @@ (6 :> Str(<<"q">>))),
                DataRow(7, Str(CITY_FILTER), Str(<<"a">>), (4 :> Num(5)) @@ (6 :> Num(0)))>>]

\* one row of the city whose value of p is the one PipelineRows has for county a
SameValueFile ==
    [ncols |-> 5,
     rows |-> <<TitleRow(5),
                DataRow(5, NaN, NaN, 4 :> Str(<<"p">>)),
                DataRow(5, Str(CITY_FILTER), Str(<<"a">>), 4 :> Num(20))>>]

FewFiles == SmallFiles \cup {TwoIndicatorFile, SameValueFile}

\* an indicator name with a unit in brackets, as "销量（件）"
SCENARIO_INDICATOR == <<"s", "(", "u", ")">>

\* the table of the end-to-end scenario: the header row and two county rows of
\* the city, the second under a merged city cell; lead is the rows above the
\* header row
ScenarioFile(lead, v1, v2) ==
    [ncols |-> 5,
     rows |-> lead \o
              <<DataRow(5, Str(<<"c">>), Str(<<"d">>), 4 :> Str(SCENARIO_INDICATOR)),
                DataRow(5, Str(CITY_FILTER), Str(<<"a">>), 4 :> Num(v1)),
                DataRow(5, NaN, Str(<<"b">>), 4 :> Num(v2))>>]

\* the scenario's pair of files (prior year, current year), with the title
\* row the layout has above the header row and without it
ScenarioPairs ==
    {<<ScenarioFile(lead, 10, 20), ScenarioFile(lead, 15, 8)>> : lead \in {<<TitleRow(5)>>, <<>>}}

\* pe_ret before the call
NotCalled == Failure("not_called", NoIndicators, ScanStart)

NoFiles == [last |-> None, this |-> None, comparison |-> NoTable]

\* int(text): surrounding whitespace and one sign are accepted, anything else
\* than digits raises ValueError
int_body(text) ==
    LET t == strip(text)
    IN  IF t # <<>> /\ Head(t) \in {"+", "-"} THEN Tail(t) ELSE t

int_raises(text) == ~IsNatText(int_body(text))

int(text) ==
    LET t == strip(text)
    IN  IF t # <<>> /\ Head(t) = "-" THEN 0 - ParseNat(int_body(text), 0)
        ELSE ParseNat(int_body(text), 0)

\* os.path.isdir(output_dir_path): of the directories the model names only
\* "out" exists
isdir(path) == path = "out"

\* a variant that lets a negative number of rows through
validation_error_sign_unchecked(e) ==
    IF int_raises(e.skip_rows) THEN "InputError"
    ELSE IF e.output_dir = "" THEN "InputError"
    ELSE IF ~isdir(e.output_dir) THEN "PathError"
    ELSE IF e.last_year = "" /\ e.current_year = "" THEN "InputError"
    ELSE IF e.last_year = "" \/ e.current_year = "" THEN "InputError"
    ELSE "none"

\* the checks before the progress window opens: the title of the error box the
\* first failing check shows, "none" when all pass
validation_error(e) ==
    IF int_raises(e.skip_rows) THEN "InputError"
    ELSE IF int(e.skip_rows) < 0 THEN "InputError"
    ELSE IF e.output_dir = "" THEN "InputError"
    ELSE IF ~isdir(e.output_dir) THEN "PathError"
    ELSE IF e.last_year = "" /\ e.current_year = "" THEN "InputError"
    ELSE IF e.last_year = "" \/ e.current_year = "" THEN "InputError"
    ELSE "none"

\* the entries when the window opens: the default number of rows, no path
DefaultEntries ==
    [skip_rows |-> <<"0">>, output_dir |-> "", last_year |-> "", current_year |-> ""]

GoodEntries ==
    [skip_rows |-> <<"0">>, output_dir |-> "out", last_year |-> "last.xlsx",
     current_year |-> "this.xlsx"]

\* what the user may have typed when the start button is clicked
SkipTexts == {<<"0">>, <<" ", "-", "1">>, <<"x">>, <<>>}

\* the entries filled in well, the same with one entry or both paths changed,
\* and the untouched window
EntryChoices ==
    {[GoodEntries EXCEPT !.skip_rows = t] : t \in SkipTexts} \cup
    {[GoodEntries EXCEPT !.output_dir = d] : d \in {"", "gone"}} \cup
    {[GoodEntries EXCEPT !.last_year = ""], [GoodEntries EXCEPT !.current_year = ""],
     [GoodEntries EXCEPT !.last_year = "", !.current_year = ""], DefaultEntries}

\* the dialog of this run: not shown yet, or closed with the names the confirm
\* button took (none when the window was closed without it)
NotShown == [shown |-> FALSE, confirmed |-> FALSE, names |-> {}]

Answer(checked, confirmed) ==
    [shown |-> TRUE, confirmed |-> confirmed, names |-> IF confirmed THEN checked ELSE {}]

\* the process before the first click on the start button
InitRun ==
    /\ pc = "idle"
    /\ runs = 0
    /\ entries = DefaultEntries
    /\ rows_to_skip_val = 0
    /\ progress_window = "none"
    /\ progress_steps = <<>>
    /\ write_failures = {}
    /\ dialog = NotShown
    /\ message = "none"
    /\ df_last_year = None
    /\ df_this_year = None
    /\ indicators = <<>>
    /\ counties = <<>>
    /\ negative_indicators = <<>>
    /\ result_data = <<>>
    /\ out_files = NoFiles

InitHarnessIdle ==
    /\ pe_pc = "idle"
    /\ pe_file = EmptyFile
    /\ pe_skip = 0
    /\ pe_write_ok = TRUE
    /\ pe_ret = NotCalled

Init ==
    /\ InitRun
    /\ InitHarnessIdle
    /\ \/ last_year_file \in PipelineFiles /\ current_year_file \in FewFiles
       \/ last_year_file \in FewFiles /\ current_year_file \in PipelineFiles
       \/ \E pair \in ScenarioPairs : last_year_file = pair[1] /\ current_year_file = pair[2]

files_unchanged == UNCHANGED <<last_year_file, current_year_file, pe_vars>>

\* update_progress(value, message): the values logged in this run
update_progress(value) == progress_steps' = Append(progress_steps, value)

\* the handler up to the progress window: the entries are read and checked; a
\* failing check shows its box and returns
Start ==
    /\ pc = "idle"
    /\ runs < MaxRuns
    /\ runs' = runs + 1
    /\ \E e \in EntryChoices :
        /\ entries' = e
        /\ IF validation_error(e) = "none"
           THEN /\ rows_to_skip_val' = int(e.skip_rows)
                /\ progress_window' = "open"
                /\ message' = "none"
                /\ pc' = "extract_last"
           ELSE /\ rows_to_skip_val' = rows_to_skip_val
                /\ progress_window' = progress_window
                /\ message' = validation_error(e)
                /\ pc' = "idle"
    /\ progress_steps' = <<>>
    /\ write_failures' = {}
    /\ dialog' = NotShown
    /\ df_last_year' = None
    /\ df_this_year' = None
    /\ indicators' = <<>>
    /\ counties' = <<>>
    /\ result_data' = <<>>
    /\ UNCHANGED <<negative_indicators, out_files>>
    /\ files_unchanged

box_after(ret) == IF ret.error = "none" THEN message ELSE ret.error

\* a variant that goes on without the table
aborts_never(df) == FALSE

\* if df_last_year is None / if df_this_year is None: close the progress
\* window and return
aborts(df) == df = None

\* the output whose write raised inside process_excel_file, if any
failed_write(ret, name) ==
    IF ret.error = "ProcessError" THEN write_failures \cup {name} ELSE write_failures

\* update_progress(10); df_last_year, ... = process_excel_file(last_year_path, ...);
\* if None: destroy the progress window and return
ExtractLastYear ==
    /\ pc = "extract_last"
    /\ \E write_ok \in BOOLEAN :
        LET ret == process_excel_file(last_year_file, CITY_FILTER, rows_to_skip_val, write_ok)
        IN  /\ df_last_year' = ret.df
            /\ message' = box_after(ret)
            /\ write_failures' = failed_write(ret, "last")
            /\ out_files' = IF ret.written = None THEN out_files
                            ELSE [out_files EXCEPT !.last = ret.written]
            /\ IF aborts(ret.df)
               THEN progress_window' = "destroyed" /\ pc' = "idle"
               ELSE progress_window' = progress_window /\ pc' = "extract_this"
    /\ update_progress(10)
    /\ UNCHANGED <<runs, entries, dialog, rows_to_skip_val, df_this_year, indicators, counties,
                   negative_indicators, result_data>>
    /\ files_unchanged

\* update_progress(30); df_this_year, ... = process_excel_file(current_year_path, ...);
\* if None: return; then update_progress(50) and extract_indicators_and_counties
ExtractThisYear ==
    /\ pc = "extract_this"
    /\ \E write_ok \in BOOLEAN :
        LET ret == process_excel_file(current_year_file, CITY_FILTER, rows_to_skip_val, write_ok)
            names == extract_indicators_and_counties(df_last_year, ret.df)
        IN  /\ df_this_year' = ret.df
            /\ message' = box_after(ret)
            /\ write_failures' = failed_write(ret, "this")
            /\ out_files' = IF ret.written = None THEN out_files
                            ELSE [out_files EXCEPT !.this = ret.written]
            /\ IF aborts(ret.df)
               THEN /\ progress_window' = "destroyed"
                    /\ pc' = "idle"
                    /\ progress_steps' = Append(progress_steps, 30)
                    /\ UNCHANGED <<indicators, counties>>
               ELSE /\ progress_window' = progress_window
                    /\ pc' = "select"
                    /\ progress_steps' = progress_steps \o <<30, 50>>
                    /\ indicators' = names.indicators
                    /\ counties' = names.counties
    /\ UNCHANGED <<runs, entries, dialog, rows_to_skip_val, df_last_year, negative_indicators,
                   result_data>>
    /\ files_unchanged

\* a variant that goes from the dialog straight to the growth computation
SelectNegative_then_growth ==
    /\ pc = "select"
    /\ \E checked \in SUBSET {indicators[i] : i \in 1..Len(indicators)}, confirmed \in BOOLEAN :
        /\ negative_indicators' = select_negative_indicators(indicators, checked, confirmed)
        /\ dialog' = Answer(checked, confirmed)
    /\ update_progress(60)
    /\ pc' = "growth"
    /\ UNCHANGED <<runs, entries, rows_to_skip_val, progress_window, write_failures, message,
                   df_last_year, df_this_year, indicators, counties, result_data, out_files>>
    /\ files_unchanged

\* update_progress(60); select_negative_indicators(indicators, root): the user
\* checks some boxes and confirms, or closes the dialog
SelectNegative ==
    /\ pc = "select"
    /\ \E checked \in SUBSET {indicators[i] : i \in 1..Len(indicators)}, confirmed \in BOOLEAN :
        /\ negative_indicators' = select_negative_indicators(indicators, checked, confirmed)
        /\ dialog' = Answer(checked, confirmed)
    /\ update_progress(60)
    /\ pc' = "invert"
    /\ UNCHANGED <<runs, entries, rows_to_skip_val, progress_window, write_failures, message,
                   df_last_year, df_this_year, indicators, counties, result_data, out_files>>
    /\ files_unchanged

\* update_progress(70); for indicator in negative_indicators: ... * -1; an
\* exception leaves the handler
InvertNegative ==
    /\ pc = "invert"
    /\ LET r == apply_negative_indicators(negative_indicators, df_this_year, df_last_year)
       IN  /\ df_this_year' = r.df_this
           /\ df_last_year' = r.df_last
           /\ pc' = IF r.raised THEN "crashed" ELSE "growth"
    /\ update_progress(70)
    /\ UNCHANGED <<runs, entries, dialog, rows_to_skip_val, progress_window, write_failures, message,
                   indicators, counties, negative_indicators, result_data, out_files>>
    /\ files_unchanged

\* update_progress(80);
\* result_data = calculate_growth_rates(df_last_year, df_this_year, indicators, counties)
ComputeGrowth ==
    /\ pc = "growth"
    /\ LET r == calculate_growth_rates(df_last_year, df_this_year, indicators, counties)
       IN  /\ result_data' = r.data
           /\ pc' = IF r.raised THEN "crashed" ELSE "generate"
    /\ update_progress(80)
    /\ UNCHANGED <<runs, entries, dialog, rows_to_skip_val, progress_window, write_failures, message,
                   df_last_year, df_this_year, indicators, counties, negative_indicators,
                   out_files>>
    /\ files_unchanged

\* update_progress(90);
\* df_output = generate_output_table(result_data, counties, comparison_output_file):
\* a failing to_excel raises out of the handler
GenerateTable ==
    /\ pc = "generate"
    /\ \E write_ok \in BOOLEAN :
        IF write_ok
        THEN /\ out_files' = [out_files EXCEPT !.comparison =
                                 [none |-> FALSE, fills |-> <<>>] @@
                                 generate_output_table(result_data, counties)]
             /\ write_failures' = write_failures
             /\ pc' = "format"
        ELSE /\ out_files' = out_files
             /\ write_failures' = write_failures \cup {"comparison"}
             /\ pc' = "crashed"
    /\ update_progress(90)
    /\ UNCHANGED <<runs, entries, dialog, rows_to_skip_val, progress_window, message, df_last_year,
                   df_this_year, indicators, counties, negative_indicators, result_data>>
    /\ files_unchanged

\* update_progress(95); format_excel_with_style(comparison_output_file): a
\* failing load or save is printed and the handler goes on
FormatTable ==
    /\ pc = "format"
    /\ \E write_ok \in BOOLEAN :
        IF write_ok
        THEN /\ out_files' = [out_files EXCEPT !.comparison = format_excel_with_style(@)]
             /\ write_failures' = write_failures
        ELSE /\ out_files' = out_files
             /\ write_failures' = write_failures \cup {"comparison"}
    /\ update_progress(95)
    /\ pc' = "finish"
    /\ UNCHANGED <<runs, entries, dialog, rows_to_skip_val, progress_window, message, df_last_year,
                   df_this_year, indicators, counties, negative_indicators, result_data>>
    /\ files_unchanged

\* update_progress(100); progress_window.destroy() and the result window
Finish ==
    /\ pc = "finish"
    /\ update_progress(100)
    /\ progress_window' = "destroyed"
    /\ pc' = "idle"
    /\ UNCHANGED <<runs, entries, dialog, rows_to_skip_val, write_failures, message, df_last_year,
                   df_this_year, indicators, counties, negative_indicators, result_data,
                   out_files>>
    /\ files_unchanged

Next ==
    \/ Start
    \/ ExtractLastYear
    \/ ExtractThisYear
    \/ SelectNegative
    \/ InvertNegative
    \/ ComputeGrowth
    \/ GenerateTable
    \/ FormatTable
    \/ Finish

Spec == Init /\ [][Next]_vars

----------------------------------------------------------------------------
(* Calls of process_excel_file on arbitrary spreadsheets *)

InitExtract ==
    /\ pe_pc = "call"
    /\ \/ pe_file \in HeaderFiles /\ pe_skip \in 0..MaxSkip /\ pe_write_ok \in BOOLEAN
       \/ pe_file \in ValueFiles \cup SmallFiles /\ pe_skip = 0 /\ pe_write_ok \in BOOLEAN
       \/ pe_file \in CityFiles \cup PairFiles /\ pe_skip = 0 /\ pe_write_ok = TRUE
    /\ pe_ret = NotCalled
    /\ InitRun
    /\ last_year_file = EmptyFile
    /\ current_year_file = EmptyFile

\* df, indicators = process_excel_file(path, out, "忻州", label, rows_to_skip, ...)
Call ==
    /\ pe_pc = "call"
    /\ pe_ret' = process_excel_file(pe_file, CITY_FILTER, pe_skip, pe_write_ok)
    /\ pe_pc' = "returned"
    /\ UNCHANGED <<pe_file, pe_skip, pe_write_ok, run_vars>>

\* the caller's next call, on another spreadsheet
CallAgain ==
    /\ pe_pc = "returned"
    /\ \E f \in SmallFiles :
        /\ pe_file' = f
        /\ pe_ret' = process_excel_file(f, CITY_FILTER, pe_skip, pe_write_ok)
    /\ UNCHANGED <<pe_pc, pe_skip, pe_write_ok, run_vars>>

NextExtract == Call \/ CallAgain

SpecExtract == InitExtract /\ [][NextExtract]_vars

----------------------------------------------------------------------------
(* calculate_growth_rates and the comparison table on arbitrary extracted tables *)

MaxFrameRows == 2

GrowthValues == {NaN, Num(0), Num(50), Num(100), Num(150), Num(0 - 50)}

FrameCounties == {<<"a">>, <<"b">>}

FrameRow(county, values) == <<Str(CITY_FILTER), Str(county)>> \o values

PColumns == <<OUTPUT_CITY_COL_NAME, OUTPUT_COUNTY_COL_NAME, <<"p">>>>

\* one row, one indicator p, any value
OneRowFrames ==
    {DataFrame(<<FrameRow(c, <<v>>)>>, PColumns) : c \in FrameCounties, v \in GrowthValues}

\* several rows, one indicator p
ManyRowFrames ==
    {DataFrame([r \in 1..Len(rs) |-> FrameRow(rs[r][1], <<rs[r][2]>>)], PColumns) :
        rs \in {x \in SeqsUpTo(FrameCounties \X {NaN, Num(0), Num(50)}, MaxFrameRows) : Len(x) >= 2}}

\* tables with other indicator columns: q alone, p twice, p and q
OtherFrames ==
    {DataFrame(<<FrameRow(<<"a">>, <<Num(50)>>)>>,
               <<OUTPUT_CITY_COL_NAME, OUTPUT_COUNTY_COL_NAME, <<"q">>>>),
     DataFrame(<<FrameRow(<<"a">>, <<Num(50), Num(100)>>)>>,
               <<OUTPUT_CITY_COL_NAME, OUTPUT_COUNTY_COL_NAME, <<"p">>, <<"p">>>>),
     DataFrame(<<FrameRow(<<"a">>, <<Num(50), Num(100)>>)>>,
               <<OUTPUT_CITY_COL_NAME, OUTPUT_COUNTY_COL_NAME, <<"p">>, <<"q">>>>)}

Frames == OneRowFrames \cup ManyRowFrames \cup OtherFrames

\* run_processing as it reaches calculate_growth_rates
InitGrowth ==
    /\ InitHarnessIdle
    /\ pc = "growth"
    /\ runs = 1
    /\ entries = GoodEntries
    /\ rows_to_skip_val = 0
    /\ progress_window = "open"
    /\ progress_steps = <<10, 30, 50, 60, 70>>
    /\ write_failures = {}
    /\ dialog = Answer({}, FALSE)
    /\ message = "none"
    /\ last_year_file = EmptyFile
    /\ current_year_file = EmptyFile
    /\ df_last_year \in Frames
    /\ df_this_year \in Frames
    /\ indicators = extract_indicators_and_counties(df_last_year, df_this_year).indicators
    /\ counties = extract_indicators_and_counties(df_last_year, df_this_year).counties
    /\ negative_indicators = <<>>
    /\ result_data = <<>>
    /\ out_files = NoFiles

NextGrowth == ComputeGrowth \/ GenerateTable \/ FormatTable \/ Finish

SpecGrowth == InitGrowth /\ [][NextGrowth]_vars

----------------------------------------------------------------------------
(* Claims about process_excel_file and extract_indicators_from_template *)

\* the raw table of the call, and whether the call went through the row scan
Table == read_excel(pe_file, pe_skip)

Returned == pe_pc = "returned"

Scanned == Returned /\ pe_ret.error # "IndicatorError"

TableCell(r, c) == IF c < Table.ncols THEN iloc(Table, r, c) ELSE NaN

\* a city cell that is not blank after trimming
CityGiven(r) == notna(TableCell(r, CITY_COL)) /\ strip(str(TableCell(r, CITY_COL))) # <<>>

CountyGiven(r) == notna(TableCell(r, COUNTY_COL)) /\ strip(str(TableCell(r, COUNTY_COL))) # <<>>

\* the city row r resolves to by forward fill
ResolvedCity(r) ==
    IF \E q \in 0..r : CityGiven(q)
    THEN LET q == CHOOSE q \in 0..r : CityGiven(q) /\ \A q2 \in (q + 1)..r : ~CityGiven(q2)
         IN  SomeCity(strip(str(TableCell(q, CITY_COL))))
    ELSE NoCity

TableRows == 0..(shape0(Table) - 1)

CityColumnIs(cells) ==
    /\ shape0(Table) = Len(cells)
    /\ \A r \in TableRows : TableCell(r, CITY_COL) = cells[r + 1]

\* C4: during the row scan the city of a row is the most recent non-blank
\* (trimmed) city cell at or above it, none before the first such cell; for
\* the city cells A, blank, blank, B, blank the rows resolve to A, A, A, B, B
C4_ForwardFill ==
    Scanned =>
        /\ Len(pe_ret.locals.trace) = shape0(Table)
        /\ \A r \in TableRows : pe_ret.locals.trace[r + 1] = ResolvedCity(r)
        /\ CityColumnIs(<<Str(CITY_FILTER), NaN, Str(<<" ">>), Str(OTHER_CITY), NaN>>) =>
               pe_ret.locals.trace =
                   <<SomeCity(CITY_FILTER), SomeCity(CITY_FILTER), SomeCity(CITY_FILTER),
                     SomeCity(OTHER_CITY), SomeCity(OTHER_CITY)>>

C4_Witness ==
    /\ Scanned
    /\ CityColumnIs(<<Str(CITY_FILTER), NaN, Str(<<" ">>), Str(OTHER_CITY), NaN>>)
    /\ pe_ret.locals.trace[3] = SomeCity(CITY_FILTER)
    /\ pe_ret.locals.trace[5] = SomeCity(OTHER_CITY)

\* the source rows process_excel_file has to collect, and the k-th of them
Qualifying == {r \in TableRows : ResolvedCity(r) = SomeCity(CITY_FILTER) /\ CountyGiven(r)}

KthQualifying(k) == CHOOSE r \in Qualifying : Cardinality({q \in Qualifying : q < r}) = k - 1

ExpectedRow(r) ==
    <<Str(CITY_FILTER), Str(strip(str(TableCell(r, COUNTY_COL))))>> \o
    [j \in 1..Len(pe_ret.locals.value_columns) |->
        to_numeric(TableCell(r, pe_ret.locals.value_columns[j]))]

\* C5: exactly one extracted row, in source order, for each source row whose
\* resolved city is the target and whose trimmed county cell is non-blank; a
\* blank-county row under the target city adds no row and raises no error
C5_CollectedRows ==
    Scanned =>
        /\ Len(pe_ret.locals.city_data) = Cardinality(Qualifying)
        /\ \A k \in 1..Len(pe_ret.locals.city_data) :
               pe_ret.locals.city_data[k] = ExpectedRow(KthQualifying(k))
        /\ pe_ret.error # "ProcessError" \/ ~pe_write_ok
        /\ (Qualifying # {} /\ pe_write_ok) =>
               pe_ret.error = "none" /\ pe_ret.df.data = pe_ret.locals.city_data

C5_Witness ==
    /\ Scanned
    /\ pe_ret.error = "none"
    /\ Cardinality(Qualifying) = 2
    /\ \E r \in TableRows :
           /\ ResolvedCity(r) = SomeCity(CITY_FILTER)
           /\ ~CountyGiven(r)
           /\ \E q1, q2 \in Qualifying : q1 < r /\ r < q2

\* the header row and the columns extract_indicators_from_template has to report
HeaderExists == shape0(Table) > HEADER_ROW_IDX

NamedCols ==
    {c \in 0..(Table.ncols - 1) :
        /\ c >= 4
        /\ (c - 4) % 2 = 0
        /\ notna(TableCell(HEADER_ROW_IDX, c))}

KthNamedCol(k) == CHOOSE c \in NamedCols : Cardinality({d \in NamedCols : d < c}) = k - 1

\* C6: the extractor returns exactly the non-blank header cells at columns
\* 4, 6, 8, ... in ascending order, each with its own column index, skipping
\* the blank cells and nothing else; both lists have the same length
C6_HeaderCells ==
    Returned =>
        /\ Len(pe_ret.locals.indicators) = Len(pe_ret.locals.value_columns)
        /\ HeaderExists =>
               /\ Len(pe_ret.locals.value_columns) = Cardinality(NamedCols)
               /\ \A k \in 1..Len(pe_ret.locals.value_columns) :
                      /\ pe_ret.locals.value_columns[k] = KthNamedCol(k)
                      /\ pe_ret.locals.indicators[k] =
                             replace_newline(str(TableCell(HEADER_ROW_IDX, KthNamedCol(k))))

C6_Witness ==
    /\ Returned
    /\ HeaderExists
    /\ pe_ret.locals.value_columns = <<4, 8>>
    /\ isna(TableCell(HEADER_ROW_IDX, 6))
    /\ pe_ret.locals.indicators = <<<<"q", "r">>, <<"p">>>>

\* C7: without a header row after the skipped rows the indicator list is
\* empty, and on any empty indicator list process_excel_file fails: it
\* returns None and writes no output file
C7_NoIndicators ==
    Returned =>
        /\ Len(pe_file.rows) - pe_skip <= 1 => pe_ret.locals.indicators = <<>>
        /\ pe_ret.locals.indicators = <<>> =>
               /\ pe_ret.df = None
               /\ pe_ret.indicators = <<>>
               /\ pe_ret.written = None
               /\ pe_ret.error = "IndicatorError"

C7_Witness ==
    /\ Returned
    /\ Len(pe_file.rows) = 2
    /\ pe_skip = 1
    /\ pe_file.ncols > 4
    /\ pe_ret.df = None
    /\ pe_ret.written = None

\* a text that cannot be a number
NonNumeric(c) == c.k = "str" /\ \E i \in 1..Len(c.s) : c.s[i] \notin DigitChars \cup {"-"}

\* C8: every extracted row has one value per indicator, in indicator order;
\* an empty or non-numeric source cell gives an absent value, never zero, and
\* the extraction goes on
C8_RowValues ==
    Scanned =>
        \A k \in 1..Len(pe_ret.locals.city_data) :
            LET row == pe_ret.locals.city_data[k]
                r == KthQualifying(k)
            IN  /\ Len(row) = 2 + Len(pe_ret.locals.indicators)
                /\ \A j \in 1..Len(pe_ret.locals.indicators) :
                       LET src == TableCell(r, pe_ret.locals.value_columns[j])
                       IN  /\ row[2 + j].k \in {"nan", "num"}
                           /\ (isna(src) \/ NonNumeric(src)) => row[2 + j] = NaN
                           /\ src.k = "num" => row[2 + j] = src
                /\ pe_write_ok => pe_ret.error = "none"

C8_Witness ==
    /\ Scanned
    /\ pe_ret.error = "none"
    /\ \E k \in 1..Len(pe_ret.df.data) :
           /\ Len(pe_ret.df.data[k]) = 4
           /\ TableCell(KthQualifying(k), 4) = Str(<<"x">>)
           /\ TableCell(KthQualifying(k), 6) = Num(0)
           /\ pe_ret.df.data[k][3] = NaN
           /\ pe_ret.df.data[k][4] = Num(0)

ReturnValue(ret) == <<ret.df, ret.indicators>>

\* C9 as stated: the value process_excel_file returns for 'no indicators
\* found' differs from the one it returns for 'no matching-city rows found'
C9_ReturnValuesDiffer ==
    [][(pe_ret.error = "IndicatorError" /\ pe_ret'.error = "DataError") =>
           ReturnValue(pe_ret') # ReturnValue(pe_ret)]_vars

\* C9 as amended: both failures return the same value, None and an empty
\* list; only the message box shown to the operator tells them apart
C9_SameValueOtherMessage ==
    Returned =>
        /\ pe_ret.locals.indicators = <<>> => pe_ret.error = "IndicatorError"
        /\ (pe_ret.locals.indicators # <<>> /\ pe_ret.locals.city_data = <<>>) =>
               pe_ret.error = "DataError"
        /\ pe_ret.error \in {"IndicatorError", "DataError"} =>
               ReturnValue(pe_ret) = <<None, <<>>>>

C9_Witness ==
    /\ Returned
    /\ pe_file = OtherCityFile
    /\ pe_ret.error = "DataError"
    /\ ReturnValue(pe_ret) = ReturnValue(process_excel_file(EmptyFile, CITY_FILTER, 0, TRUE))

----------------------------------------------------------------------------
(* Claims about calculate_growth_rates *)

GrowthComputed == pc \in {"generate", "format", "finish"}

\* the value of an indicator in the first row of a county
FirstRowOf(df, county) ==
    CHOOSE r \in 1..Len(df.data) :
        /\ df.data[r][2] = Str(county)
        /\ \A q \in 1..(r - 1) : df.data[q][2] # Str(county)

ValueIn(df, county, indicator) ==
    df.data[FirstRowOf(df, county)][CHOOSE i \in 1..Len(df.columns) : df.columns[i] = indicator]

Present(v) == v.k = "num"

AbsentOrZero(v) == v.k = "nan" \/ (v.k = "num" /\ v.n = 0)

\* the pairs calculate_growth_rates computed, with the values it read
ComputedPairs ==
    UNION {{<<k, c>> : c \in DOMAIN result_data[k].growth_rates} : k \in 1..Len(result_data)}

PreviousOf(x) == ValueIn(df_last_year, x[2], result_data[x[1]].name)

CurrentOf(x) == ValueIn(df_this_year, x[2], result_data[x[1]].name)

RateOf(x) == result_data[x[1]].growth_rates[x[2]]

\* C1: the growth rate of a computed pair is (current - previous) / previous
\* * 100 when previous is present and non-zero (an absent current makes that
\* expression absent), infinite when previous is absent or zero and current is
\* present and non-zero, undefined when both are absent or zero; 100 -> 150
\* gives 50, 0 -> 50 infinite, 0 -> 0 and absent -> absent undefined
C1_GrowthLaws ==
    GrowthComputed =>
        \A x \in ComputedPairs :
            LET p == PreviousOf(x)
                c == CurrentOf(x)
                g == RateOf(x)
            IN  /\ (Present(p) /\ p.n # 0 /\ Present(c)) =>
                       g.k = "num" /\ g.d > 0 /\ g.n * p.n = (c.n - p.n) * 100 * g.d
                /\ (Present(p) /\ p.n # 0 /\ ~Present(c)) => g.k = "nan"
                /\ (AbsentOrZero(p) /\ Present(c) /\ c.n # 0) => g.k = "inf"
                /\ (AbsentOrZero(p) /\ AbsentOrZero(c)) => g.k = "nan"
                /\ (p = Num(100) /\ c = Num(150)) => g = Fraction(50, 1)
                /\ (p = Num(0) /\ c = Num(50)) => g = RateInf
                /\ (p = Num(0) /\ c = Num(0)) => g = RateNaN
                /\ (p = NaN /\ c = NaN) => g = RateNaN

C1_Witness ==
    /\ GrowthComputed
    /\ \E x \in ComputedPairs :
           /\ PreviousOf(x) = Num(100)
           /\ CurrentOf(x) = Num(150)
           /\ RateOf(x) = Fraction(50, 1)

\* C2 as stated: the growth rate of a computed pair is undefined only when
\* both the previous and the current value are absent or zero
C2_UndefinedOnlyBothAbsentOrZero ==
    GrowthComputed =>
        \A x \in ComputedPairs :
            RateOf(x).k = "nan" => AbsentOrZero(PreviousOf(x)) /\ AbsentOrZero(CurrentOf(x))

\* the cell of the growth row of a computed pair in the comparison file
GrowthCells(x) ==
    {out_files.comparison.rows[3 * x[1]][1 + i] :
        i \in {j \in 1..Len(counties) : counties[j] = x[2]}}

\* C2 as amended: the growth rate of a computed pair is undefined, and shown
\* as N/A, exactly when both values are absent or zero, or when previous is
\* present and non-zero and current is absent
C2_UndefinedCases ==
    /\ GrowthComputed =>
           \A x \in ComputedPairs :
               RateOf(x).k = "nan" <=>
                   \/ AbsentOrZero(PreviousOf(x)) /\ AbsentOrZero(CurrentOf(x))
                   \/ Present(PreviousOf(x)) /\ PreviousOf(x).n # 0 /\ ~Present(CurrentOf(x))
    /\ (pc \in {"format", "finish"}) =>
           \A x \in ComputedPairs :
               (NA_TEXT \in GrowthCells(x)) <=>
                   \/ AbsentOrZero(PreviousOf(x)) /\ AbsentOrZero(CurrentOf(x))
                   \/ Present(PreviousOf(x)) /\ PreviousOf(x).n # 0 /\ ~Present(CurrentOf(x))

C2_Witness ==
    /\ pc = "format"
    /\ \E x \in ComputedPairs :
           /\ PreviousOf(x) = Num(100)
           /\ CurrentOf(x) = NaN
           /\ RateOf(x) = RateNaN
           /\ GrowthCells(x) = {NA_TEXT}

----------------------------------------------------------------------------
(* Claims about the sign inversion in run_processing *)

\* the tables as process_excel_file extracted them in this run, before any inversion
RawLastYear == process_excel_file(last_year_file, CITY_FILTER, rows_to_skip_val, TRUE).df

RawThisYear == process_excel_file(current_year_file, CITY_FILTER, rows_to_skip_val, TRUE).df

Selected == {negative_indicators[i] : i \in 1..Len(negative_indicators)}

InversionDone == pc \in {"growth", "generate", "format", "finish"}

\* C3 as stated: for an indicator marked negative with present positive raw
\* values in both years, a decrease of the raw value gives a positive growth
\* rate in the comparison result
C3_DecreaseReadsPositive ==
    GrowthComputed =>
        \A x \in ComputedPairs :
            LET name == result_data[x[1]].name
                p == ValueIn(RawLastYear, x[2], name)
                c == ValueIn(RawThisYear, x[2], name)
            IN  (name \in Selected /\ Present(p) /\ Present(c) /\ 0 < c.n /\ c.n < p.n) =>
                    RateOf(x).k = "num" /\ RateOf(x).n > 0

\* df holds raw with the present values of the selected columns multiplied by
\* -1 once and everything else as it was
InvertedOnce(df, raw) ==
    /\ df.columns = raw.columns
    /\ Len(df.data) = Len(raw.data)
    /\ \A r \in 1..Len(raw.data) :
           /\ Len(df.data[r]) = Len(raw.data[r])
           /\ \A i \in 1..Len(raw.data[r]) :
                  IF i > 2 /\ raw.columns[i] \in Selected /\ Present(raw.data[r][i])
                  THEN df.data[r][i] = Num(0 - raw.data[r][i].n)
                  ELSE df.data[r][i] = raw.data[r][i]

\* C10: before growth is computed every present value of every indicator of
\* the confirmed selection is multiplied by -1 exactly once in both tables,
\* other values are unchanged, and the selection never holds an indicator
\* twice; the growth result is computed from the inverted values
C10_InvertedExactlyOnce ==
    /\ \A i, j \in 1..Len(negative_indicators) :
           negative_indicators[i] = negative_indicators[j] => i = j
    /\ InversionDone =>
           /\ InvertedOnce(df_last_year, RawLastYear)
           /\ InvertedOnce(df_this_year, RawThisYear)
    /\ GrowthComputed =>
           \A x \in ComputedPairs :
               LET name == result_data[x[1]].name
                   p == ValueIn(RawLastYear, x[2], name)
                   c == ValueIn(RawThisYear, x[2], name)
                   sign == IF name \in Selected THEN 0 - 1 ELSE 1
               IN  /\ Present(p) => result_data[x[1]].previous_values[x[2]] = Num(sign * p.n)
                   /\ Present(c) => result_data[x[1]].current_values[x[2]] = Num(sign * c.n)

C10_Witness ==
    /\ pc = "generate"
    /\ negative_indicators = <<<<"p">>>>
    /\ \E r \in 1..Len(df_last_year.data) :
           RawLastYear.data[r][3] = Num(20) /\ df_last_year.data[r][3] = Num(0 - 20)
    /\ \E r \in 1..Len(df_last_year.data) :
           RawLastYear.data[r][3] = NaN /\ df_last_year.data[r][3] = NaN
    /\ df_this_year.data[1][3] = Num(0 - 5)
    /\ df_this_year.data[1][4] = Num(0)
    /\ \E x \in ComputedPairs : result_data[x[1]].previous_values[x[2]] = Num(0 - 20)

----------------------------------------------------------------------------
(* Claims about the course of a run of run_processing *)

\* the progress values of a run that goes through
FullRun == <<10, 30, 50, 60, 70, 80, 90, 95, 100>>

IsPrefix(s, t) == Len(s) <= Len(t) /\ s = SubSeq(t, 1, Len(s))

Logged(value) == \E i \in 1..Len(progress_steps) : progress_steps[i] = value

\* the run went through to the result window
Completed == pc = "idle" /\ Logged(100)

PriorYearFailed == Logged(10) /\ df_last_year = None

CurrentYearFailed == Logged(30) /\ df_this_year = None

\* C12: when the prior-year extraction fails the run ends there: the
\* current-year file is not processed, the dialog is not shown, no comparison
\* file is written; when the current-year extraction fails after the
\* prior-year one, the run ends there with no comparison file and the
\* prior-year output written in this run stays
C12_AbortOnFailedExtraction ==
    /\ PriorYearFailed =>
           /\ pc = "idle"
           /\ progress_steps = <<10>>
           /\ progress_window = "destroyed"
           /\ message \in {"IndicatorError", "DataError", "ProcessError"}
           /\ process_excel_file(last_year_file, CITY_FILTER, rows_to_skip_val, TRUE).error
                  = "none" => write_failures = {"last"}
           /\ runs = 1 => out_files = NoFiles
    /\ CurrentYearFailed =>
           /\ pc = "idle"
           /\ progress_steps = <<10, 30>>
           /\ progress_window = "destroyed"
           /\ message \in {"IndicatorError", "DataError", "ProcessError"}
           /\ df_last_year = RawLastYear
           /\ out_files.last = to_excel(RawLastYear)
           /\ runs = 1 => out_files.this = None /\ out_files.comparison = NoTable

C12_Witness ==
    /\ CurrentYearFailed
    /\ runs = 1
    /\ message = "DataError"
    /\ out_files.last # None
    /\ out_files.this = None
    /\ out_files.comparison = NoTable

C12_WitnessPrior ==
    /\ PriorYearFailed
    /\ runs = 1
    /\ process_excel_file(current_year_file, CITY_FILTER, rows_to_skip_val, TRUE).error = "none"
    /\ out_files = NoFiles

\* C13 as stated: when the write of an output file fails in a run, the save
\* of the formatting step included, the run ends there in an error: it takes
\* no further step and does not reach its success outcome
C13_WriteFailureEndsRun ==
    write_failures # {} =>
        /\ pc \in {"idle", "crashed"}
        /\ ~Logged(100)

\* what C14 asks of the entries: a number of rows that is an integer and not
\* negative, an output directory that is given and exists, both input paths
SkipRowsAccepted(text) ==
    \E n \in 0..9 :
        \/ strip(text) \in {NatStr(n), <<"+">> \o NatStr(n)}
        \/ n = 0 /\ strip(text) = <<"-", "0">>

EntriesAccepted(e) ==
    /\ SkipRowsAccepted(e.skip_rows)
    /\ e.output_dir # ""
    /\ e.output_dir = "out"
    /\ e.last_year # ""
    /\ e.current_year # ""

\* C14: run_processing takes a step of the processing (reads an input file,
\* writes an output file) only when the entries it read are acceptable;
\* otherwise the click is rejected with an error box before the progress
\* window opens, and the output files stay as they were
C14_RejectedBeforeProcessing ==
    /\ [](~EntriesAccepted(entries) =>
             /\ pc = "idle"
             /\ progress_steps = <<>>
             /\ progress_window # "open"
             /\ runs > 0 => message \in {"InputError", "PathError"})
    /\ [](EntriesAccepted(entries) =>
             /\ rows_to_skip_val >= 0
             /\ pc # "idle" \/ progress_steps # <<>>)
    /\ [][~EntriesAccepted(entries') => out_files' = out_files]_vars

C14_Witness ==
    /\ runs = 2
    /\ entries.skip_rows = <<" ", "-", "1">>
    /\ entries.output_dir = "out"
    /\ message = "InputError"
    /\ pc = "idle"
    /\ progress_steps = <<>>
    /\ out_files.comparison # NoTable

C14_WitnessPath ==
    /\ runs = 1
    /\ entries.output_dir = "gone"
    /\ message = "PathError"
    /\ out_files = NoFiles

----------------------------------------------------------------------------
(* Claims about the comparison table *)

TableWritten == pc \in {"format", "finish"}

\* the distinct names of the indicator list, in the order of their first place
DistinctIndicators ==
    SelectSeq([i \in 1..Len(indicators) |-> <<i, indicators[i]>>],
              LAMBDA x : \A j \in 1..(x[1] - 1) : indicators[j] # x[2])

\* the text of a whole number with two decimals
TwoDecimals(n) == IntStr(n) \o <<".", "0", "0">>

\* C15: the comparison table has, for each indicator of the growth result in
\* indicator order, three consecutive rows (current values, prior values,
\* growth rates, in this order) and one column per entry of the county list
\* after the label column: 3 x indicators rows of 1 + counties cells
C15_ThreeRowsPerIndicator ==
    TableWritten =>
        LET t == out_files.comparison
        IN  /\ Len(result_data) = Len(DistinctIndicators)
            /\ \A k \in 1..Len(result_data) : result_data[k].name = DistinctIndicators[k][2]
            /\ Len(t.rows) = 3 * Len(result_data)
            /\ t.columns = <<NAME_COLUMN>> \o counties
            /\ \A r \in 1..Len(t.rows) : Len(t.rows[r]) = 1 + Len(counties)
            /\ \A k \in 1..Len(result_data) :
                   /\ t.rows[3 * k - 2][1] = before_bracket(result_data[k].name)
                   /\ t.rows[3 * k - 1][1] = PREVIOUS_LABEL
                   /\ t.rows[3 * k][1] = GROWTH_LABEL
                   /\ \A i \in 1..Len(counties) :
                          IF <<k, counties[i]>> \in ComputedPairs
                          THEN /\ t.rows[3 * k - 2][1 + i] =
                                      TwoDecimals(result_data[k].current_values[counties[i]].n)
                               /\ t.rows[3 * k - 1][1 + i] =
                                      TwoDecimals(result_data[k].previous_values[counties[i]].n)
                               /\ t.rows[3 * k][1 + i] = NA_TEXT <=>
                                      result_data[k].growth_rates[counties[i]] = RateNaN
                          ELSE /\ t.rows[3 * k - 2][1 + i] = NA_TEXT
                               /\ t.rows[3 * k - 1][1 + i] = NA_TEXT
                               /\ t.rows[3 * k][1 + i] = NA_TEXT

C15_Witness ==
    /\ TableWritten
    /\ Len(out_files.comparison.rows) = 6
    /\ out_files.comparison.columns = <<NAME_COLUMN, <<"a">>>>
    /\ out_files.comparison.rows[1] = <<<<"p">>, TwoDecimals(50)>>
    /\ out_files.comparison.rows[4] = <<<<"q">>, TwoDecimals(100)>>
    /\ out_files.comparison.rows[5][1] = PREVIOUS_LABEL
    /\ out_files.comparison.rows[6][1] = GROWTH_LABEL

C15_WitnessCounties ==
    /\ TableWritten
    /\ Len(out_files.comparison.rows) = 3
    /\ out_files.comparison.columns = <<NAME_COLUMN, <<"a">>, <<"b">>>>
    /\ out_files.comparison.rows[1][2] = TwoDecimals(50)
    /\ out_files.comparison.rows[2][2] = TwoDecimals(0)
    /\ out_files.comparison.rows[1][3] = NA_TEXT

\* the run on the scenario's files is over, no write failed and no indicator
\* was marked negative
RunOver == pc = "crashed" \/ (pc = "idle" /\ progress_steps # <<>>)

ScenarioRunOver(pairs) ==
    /\ <<last_year_file, current_year_file>> \in pairs
    /\ RunOver
    /\ write_failures = {}
    /\ negative_indicators = <<>>

Percent(n) == TwoDecimals(n) \o <<"%">>

\* the scenario's outcome with the given number of data columns
ScenarioOutcome(data_columns) ==
    /\ Completed
    /\ Len(result_data) = 1
    /\ result_data[1].growth_rates[<<"a">>] = Fraction(50, 1)
    /\ result_data[1].growth_rates[<<"b">>] = Fraction(0 - 60, 1)
    /\ Len(out_files.comparison.rows) = 3
    /\ Len(out_files.comparison.columns) = 1 + data_columns
    /\ \A r \in 1..3 : Len(out_files.comparison.rows[r]) = 1 + data_columns
    /\ \E i, j \in 2..(1 + data_columns) :
           /\ out_files.comparison.rows[3][i] = Percent(50)
           /\ out_files.comparison.rows[3][j] = Percent(0 - 60)

\* C16 as stated: the run on two 3-row tables (header row and 2 county rows
\* under the city, one indicator, values 10, 20 and then 15, 8, not marked
\* negative) gives the growth rates 50.00% and -60.00% and a comparison table
\* of 3 rows with 1 data column beyond the label column
C16_ScenarioOneDataColumn ==
    ScenarioRunOver({<<ScenarioFile(<<>>, 10, 20), ScenarioFile(<<>>, 15, 8)>>}) =>
        ScenarioOutcome(1)

\* C16 as amended: with the row the layout has above the header row, the run
\* gives 50.00% and -60.00% and a comparison table of exactly 3 rows (current,
\* prior, growth) with 2 data columns, one per county
C16_ScenarioTwoDataColumns ==
    ScenarioRunOver({<<ScenarioFile(<<TitleRow(5)>>, 10, 20),
                       ScenarioFile(<<TitleRow(5)>>, 15, 8)>>}) =>
        /\ ScenarioOutcome(2)
        /\ out_files.comparison.columns = <<NAME_COLUMN, <<"a">>, <<"b">>>>
        /\ out_files.comparison.rows =
               <<<<<<"s">>, TwoDecimals(15), TwoDecimals(8)>>,
                 <<PREVIOUS_LABEL, TwoDecimals(10), TwoDecimals(20)>>,
                 <<GROWTH_LABEL, Percent(50), Percent(0 - 60)>>>>

C16_Witness ==
    /\ ScenarioRunOver({<<ScenarioFile(<<TitleRow(5)>>, 10, 20),
                          ScenarioFile(<<TitleRow(5)>>, 15, 8)>>})
    /\ Completed
    /\ out_files.comparison.rows[3] = <<GROWTH_LABEL, Percent(50), Percent(0 - 60)>>
    /\ Len(out_files.comparison.fills) = 4

----------------------------------------------------------------------------
(* Claims about the prior-year and current-year output files *)

\* the (county, indicator, value) entries of an extracted table
TableEntries(df) ==
    {<<df.data[r][2], Str(df.columns[c]), df.data[r][c]>> :
        r \in 1..Len(df.data), c \in 3..Len(df.columns)}

\* the same entries read back from the sheet with pd.read_excel(header=None):
\* the names in row 2, a county and its values in every row below
SheetEntries(sheet) ==
    LET t == read_excel(sheet, 0)
    IN  {<<iloc(t, r, 1), iloc(t, 2, c), to_numeric(iloc(t, r, c))>> :
            r \in 3..(shape0(t) - 1), c \in 2..(shape1(t) - 1)}

\* C17 as stated: what is read back from an output file process_excel_file
\* wrote is the (county, indicator) -> value mapping of the table it wrote,
\* absent values included
C17_RoundTrip ==
    (Returned /\ pe_ret.error = "none") =>
        SheetEntries(pe_ret.written) = TableEntries(pe_ret.df)

\* the same for tables in which every indicator has a name
C17_RoundTripOfNamed ==
    (Returned /\ pe_ret.error = "none" /\
     \A i \in 1..Len(pe_ret.indicators) : pe_ret.indicators[i] # <<>>) =>
        SheetEntries(pe_ret.written) = TableEntries(pe_ret.df)

----------------------------------------------------------------------------
(* Claims about the runs of one process *)

\* df holds raw with the present values of the columns in names multiplied by
\* -1 once and everything else as it was
InvertedFor(df, raw, names) ==
    /\ df.columns = raw.columns
    /\ Len(df.data) = Len(raw.data)
    /\ \A r \in 1..Len(raw.data) :
           /\ Len(df.data[r]) = Len(raw.data[r])
           /\ \A i \in 1..Len(raw.data[r]) :
                  IF i > 2 /\ raw.columns[i] \in names /\ Present(raw.data[r][i])
                  THEN df.data[r][i] = Num(0 - raw.data[r][i].n)
                  ELSE df.data[r][i] = raw.data[r][i]

\* C18: in every run of a process the selection that is applied is the one
\* confirmed in the dialog of that run: before the dialog of a run nothing is
\* inverted, after it the list holds the names confirmed in it and no other,
\* none when it was closed without confirming, whatever earlier runs selected
C18_OwnSelectionOnly ==
    /\ ~dialog.shown =>
           /\ pc \in {"idle", "extract_last", "extract_this", "select"}
           /\ df_last_year \in {None, RawLastYear}
           /\ df_this_year \in {None, RawThisYear}
    /\ dialog.shown =>
           /\ Selected = dialog.names
           /\ dialog.names \subseteq {indicators[i] : i \in 1..Len(indicators)}
           /\ ~dialog.confirmed => negative_indicators = <<>>
    /\ InversionDone =>
           /\ InvertedFor(df_last_year, RawLastYear, dialog.names)
           /\ InvertedFor(df_this_year, RawThisYear, dialog.names)

C18_Witness ==
    /\ runs = 2
    /\ pc = "generate"
    /\ dialog = Answer({}, FALSE)
    /\ negative_indicators = <<>>
    /\ out_files.comparison # NoTable
    /\ out_files.comparison.rows[2][2] = TwoDecimals(0 - 20)
    /\ result_data[1].previous_values[<<"a">>] = Num(20)
    /\ df_last_year = RawLastYear

----------------------------------------------------------------------------
(* Claims about the rows calculate_growth_rates reads *)

\* the rows (by position) of a table that carry the county name
RowsNamed(df, county) == {r \in 1..Len(df.data) : df.data[r][2] = Str(county)}

Lowest(S) == CHOOSE r \in S : \A q \in S : r <= q

ZeroIfAbsent(v) == IF Present(v) THEN v ELSE Num(0)

\* C19: for every indicator and county name the growth result holds the
\* values of the first row with that name in the prior-year table and of the
\* first such row in the current-year table, and the rate of these two; rows
\* further down with the same name are not read, and the county list keeps
\* one entry per row of the prior-year table, repeated names included
C19_FirstMatchOnly ==
    GrowthComputed =>
        /\ Len(counties) = Len(df_last_year.data)
        /\ \A r \in 1..Len(counties) : Str(counties[r]) = df_last_year.data[r][2]
        /\ \A k \in 1..Len(result_data) :
               /\ DOMAIN result_data[k].growth_rates =
                      {counties[r] : r \in {q \in 1..Len(counties) :
                                               RowsNamed(df_this_year, counties[q]) # {}}}
               /\ \A c \in DOMAIN result_data[k].growth_rates :
                      LET col == CHOOSE i \in 1..Len(df_last_year.columns) :
                                     df_last_year.columns[i] = result_data[k].name
                          now == CHOOSE i \in 1..Len(df_this_year.columns) :
                                     df_this_year.columns[i] = result_data[k].name
                          p == df_last_year.data[Lowest(RowsNamed(df_last_year, c))][col]
                          v == df_this_year.data[Lowest(RowsNamed(df_this_year, c))][now]
                      IN  /\ result_data[k].previous_values[c] = ZeroIfAbsent(p)
                          /\ result_data[k].current_values[c] = ZeroIfAbsent(v)
                          /\ (Present(p) /\ p.n # 0 /\ Present(v)) =>
                                 /\ result_data[k].growth_rates[c].k = "num"
                                 /\ result_data[k].growth_rates[c].n * p.n =
                                        (v.n - p.n) * 100 * result_data[k].growth_rates[c].d
                          /\ (AbsentOrZero(p) /\ Present(v) /\ v.n # 0) =>
                                 result_data[k].growth_rates[c] = RateInf
                          /\ (~Present(v) \/ (AbsentOrZero(p) /\ AbsentOrZero(v))) =>
                                 result_data[k].growth_rates[c] = RateNaN

C19_Witness ==
    /\ pc = "format"
    /\ counties = <<<<"a">>, <<"a">>>>
    /\ df_last_year.data[1][3] = Num(50)
    /\ df_last_year.data[2][3] = Num(0)
    /\ Len(df_this_year.data) = 2
    /\ df_this_year.data[1] = FrameRow(<<"a">>, <<Num(0)>>)
    /\ df_this_year.data[2] = FrameRow(<<"a">>, <<Num(50)>>)
    /\ result_data[1].previous_values[<<"a">>] = Num(50)
    /\ result_data[1].current_values[<<"a">>] = Num(0)
    /\ result_data[1].growth_rates[<<"a">>] = Fraction(0 - 100, 1)
    /\ out_files.comparison.rows[2] = <<PREVIOUS_LABEL, TwoDecimals(50), TwoDecimals(50)>>

----------------------------------------------------------------------------
(* Claims about the styled comparison sheet *)

\* the sheet rows of the k-th indicator below the header row (sheet row 1)
CurrentRowOf(k) == 1 + 3 * (k - 1) + 1

PriorRowOf(k) == 1 + 3 * (k - 1) + 2

GrowthRowOf(k) == 1 + 3 * (k - 1) + 3

Styled == pc = "finish" /\ out_files.comparison.fills # <<>>

\* C20 as stated: in the styled comparison sheet the indicator (current
\* value) row and the growth row of every indicator are yellow and its prior
\* row is not
C20_IndicatorAndGrowthRowsYellow ==
    Styled =>
        /\ Len(out_files.comparison.fills) = 1 + 3 * Len(result_data)
        /\ \A k \in 1..Len(result_data) :
               /\ out_files.comparison.fills[CurrentRowOf(k)]
               /\ ~out_files.comparison.fills[PriorRowOf(k)]
               /\ out_files.comparison.fills[GrowthRowOf(k)]

----------------------------------------------------------------------------
(* Claims about the inversion and the growth rows *)

\* what calculate_growth_rates and generate_output_table give on the tables as
\* extracted, without the inversion
UninvertedResult == calculate_growth_rates(RawLastYear, RawThisYear, indicators, counties)

UninvertedTable == generate_output_table(UninvertedResult.data, counties)

\* == on two growth rates (NaN taken as equal to NaN): -0.0 == 0.0
SameFloat(g, h) == g.k = h.k /\ g.n = h.n /\ g.d = h.d

\* a displayed value with the other sign
FlipSign(text) ==
    IF text = NA_TEXT THEN NA_TEXT
    ELSE IF Head(text) = "-" THEN Tail(text)
    ELSE <<"-">> \o text

\* the growth rates are numerically those of the uninverted tables, and the
\* current and prior rows differ from the uninverted ones by the sign at most,
\* and only for the selected indicators
C21_RatesNumericallyUnchanged ==
    TableWritten =>
        /\ ~UninvertedResult.raised
        /\ Len(UninvertedResult.data) = Len(result_data)
        /\ \A x \in ComputedPairs :
               /\ x[2] \in DOMAIN UninvertedResult.data[x[1]].growth_rates
               /\ SameFloat(RateOf(x), UninvertedResult.data[x[1]].growth_rates[x[2]])
        /\ \A k \in 1..Len(result_data) :
               \A r \in {3 * k - 2, 3 * k - 1} :
                   \A i \in 2..Len(out_files.comparison.columns) :
                       LET shown == out_files.comparison.rows[r][i]
                           plain == UninvertedTable.rows[r][i]
                       IN  IF result_data[k].name \in Selected
                           THEN shown \in {plain, FlipSign(plain)}
                           ELSE shown = plain

\* C21 as stated: the growth outcome of every pair of values is the same
\* with and without the inversion of both, and the growth row of every
\* indicator of the comparison table is the one the uninverted tables give:
\* marking an indicator changes the sign of its current and prior row only
C21_GrowthRowUnchangedByInversion ==
    /\ C21_RatesNumericallyUnchanged
    /\ TableWritten =>
           \A k \in 1..Len(result_data) :
               out_files.comparison.rows[3 * k] = UninvertedTable.rows[3 * k]

\* a run in which inversion took place and the growth row is the uninverted one
C21_SameGrowthRow ==
    /\ TableWritten
    /\ negative_indicators = <<<<"p">>>>
    /\ result_data[1].previous_values[<<"a">>] = Num(0 - 20)
    /\ result_data[1].current_values[<<"a">>] = Num(0 - 8)
    /\ out_files.comparison.rows[3] = UninvertedTable.rows[3]
    /\ out_files.comparison.rows[3][2] = Percent(0 - 60)

\* equal values of a selected indicator: the growth cell shows -0.00%
C21_NegativeZeroShown ==
    /\ TableWritten
    /\ negative_indicators = <<<<"p">>>>
    /\ result_data[1].previous_values[<<"a">>] = Num(0 - 20)
    /\ result_data[1].current_values[<<"a">>] = Num(0 - 20)
    /\ UninvertedTable.rows[3][2] = Percent(0)
    /\ out_files.comparison.rows[3][2] = <<"-">> \o Percent(0)

----------------------------------------------------------------------------
(* Claims about the county columns of the comparison table *)

\* the county column of an extracted table, row by row
CountyList(df) == [r \in 1..Len(df.data) |-> df.data[r][2].s]

CountiesOf(df) == {CountyList(df)[r] : r \in 1..Len(df.data)}

\* C22: the columns of the comparison table after the name column are the
\* county list of the prior-year table, in its order; a county that only the
\* current-year table has is no column, and the column of a county without a
\* row in the current-year table holds N/A in the current, prior and growth
\* row of every indicator
C22_PriorYearCountyColumns ==
    TableWritten =>
        LET table == out_files.comparison
        IN  /\ table.columns = <<NAME_COLUMN>> \o CountyList(df_last_year)
            /\ Len(table.rows) = 3 * Len(result_data)
            /\ \A c \in CountiesOf(df_this_year) \ CountiesOf(df_last_year) :
                   \A i \in 2..Len(table.columns) : table.columns[i] # c
            /\ \A i \in 2..Len(table.columns) :
                   table.columns[i] \notin CountiesOf(df_this_year) =>
                       \A r \in 1..Len(table.rows) : table.rows[r][i] = NA_TEXT

\* prior-year counties b and a, current-year county a only: the column of b
\* comes first and holds N/A three times, the column of a holds values
C22_Witness ==
    /\ TableWritten
    /\ CountyList(df_last_year) = <<<<"b">>, <<"a">>>>
    /\ CountiesOf(df_this_year) = {<<"a">>}
    /\ out_files.comparison.columns = <<NAME_COLUMN, <<"b">>, <<"a">>>>
    /\ Len(out_files.comparison.rows) = 3
    /\ \A r \in 1..3 : out_files.comparison.rows[r][2] = NA_TEXT
    /\ out_files.comparison.rows[1][3] # NA_TEXT

\* a county b that only the current-year table has
C22_WitnessCurrentOnly ==
    /\ TableWritten
    /\ CountyList(df_last_year) = <<<<"a">>>>
    /\ CountiesOf(df_this_year) = {<<"a">>, <<"b">>}
    /\ out_files.comparison.columns = <<NAME_COLUMN, <<"a">>>>

----------------------------------------------------------------------------
(* Claims about the progress window *)

\* the progress value logged last in this run
LastStep == progress_steps[Len(progress_steps)]

\* the handler returned by a return statement or by its last line
RunReturned == pc = "idle" /\ progress_steps # <<>>

\* the window is open while the handler is at work, and destroyed when the
\* handler returns: after a failed extraction of either year and after the
\* last step
C23_DestroyedOnReturn ==
    /\ pc \in {"extract_last", "extract_this", "select", "invert", "growth", "generate",
               "format", "finish"} => progress_window = "open"
    /\ RunReturned => progress_window = "destroyed"

\* C23 as stated: every run that opened the progress window has destroyed it
\* when the run is over, also when a step after the extractions raised
C23_AlwaysDestroyed ==
    /\ C23_DestroyedOnReturn
    /\ RunOver => progress_window = "destroyed"

\* the run is over with the window open: the inversion raised, the growth
\* computation raised, the write of the comparison file raised
C23_OpenAfterInversionError ==
    pc = "crashed" /\ LastStep = 70 /\ progress_window = "open"

C23_OpenAfterGrowthError ==
    pc = "crashed" /\ LastStep = 80 /\ progress_window = "open"

C23_OpenAfterWriteError ==
    pc = "crashed" /\ LastStep = 90 /\ progress_window = "open" /\ write_failures = {"comparison"}

\* the returns that destroy the window
C23_DestroyedAfterFailedExtraction ==
    RunReturned /\ LastStep \in {10, 30} /\ progress_window = "destroyed"

C23_DestroyedAfterSuccess ==
    RunReturned /\ LastStep = 100 /\ progress_window = "destroyed"

====
